---- MODULE Spec2Model ----
(***************************************************************************)
(* A model of the task-list application (src/App.tsx) and of its AI        *)
(* assist client (src/pranavService.ts).                                   *)
(*                                                                         *)
(* A JavaScript string is modelled as a sequence of tokens: the token SP   *)
(* is one whitespace character, any other token is a run of non-white      *)
(* characters.  String.prototype.trim is the operator Trim.                *)
(*                                                                         *)
(* A Task (src/types.ts) is a record [id, text, completed, priority].  The *)
(* field createdAt is left out: no operation reads it.                     *)
(*                                                                         *)
(* localStorage['pranav_tasks'] is the variable storage.  Its value is     *)
(* what getItem returns: no entry, or a text.  A text is modelled by what  *)
(* JSON.parse makes of it: a syntax error, a JSON value that is no array,  *)
(* or an array of serialized records, in which the booleans are the JSON   *)
(* literals "true" and "false".                                            *)
(***************************************************************************)
EXTENDS Integers, Sequences, FiniteSets, TLC

VARIABLES
  pc,          \* "boot": before the first render; "running"; "crashed": a render threw
  storage,     \* localStorage['pranav_tasks']
  tasks,       \* useState<Task[]>          (App.tsx:23)
  inputText,   \* useState('')              (App.tsx:24)
  isAiLoading, \* useState(false)           (App.tsx:25)
  pending,     \* the suspended calls of handleSmartAdd, oldest first, each with
               \* the inputText of the render it was made in
  nextId,      \* the number of ids crypto.randomUUID has handed out, plus one
  ev           \* the last operation on the list and what it was called with

vars == <<pc, storage, tasks, inputText, isAiLoading, pending, nextId, ev>>

----------------------------------------------------------------------------
(* Bounds *)

\* crypto.randomUUID is called at most MaxIds times
MaxIds == 2

\* at most MaxInflight calls of handleSmartAdd are suspended at once
MaxInflight == 2

----------------------------------------------------------------------------
(* Strings *)

SP == " "

RECURSIVE TrimStart(_)
TrimStart(s) == IF s # <<>> /\ Head(s) = SP THEN TrimStart(Tail(s)) ELSE s

RECURSIVE TrimEnd(_)
TrimEnd(s) ==
  IF s # <<>> /\ s[Len(s)] = SP THEN TrimEnd(SubSeq(s, 1, Len(s) - 1)) ELSE s

Trim(s) == TrimEnd(TrimStart(s))

\* what the user may type into the input
InputTexts == { <<>>, <<SP>>, <<SP, "trip">> }

\* the arrays of strings the model may answer a breakdown request with: none,
\* one or two strings, a blank one and the text of the input among them
Breakdowns ==
  { <<>>, << <<SP>> >>, << <<"trip">>, <<SP, "trip">> >> }

\* the texts the model may answer a priority request with
PriorityTexts == { <<"High">>, <<"Medium", SP>>, <<"Low">>, <<"Urgent">> }

----------------------------------------------------------------------------
(* types.ts *)

HIGH == "High"
MEDIUM == "Medium"
LOW == "Low"
Priority == {HIGH, MEDIUM, LOW}

\* an omitted optional argument (undefined)
Undefined == "undefined"

NoId == <<"none", 0>>

\* the n-th value of crypto.randomUUID
UUID(n) == <<"uuid", n>>

----------------------------------------------------------------------------
(* JSON and localStorage *)

NoItem == [t |-> "null"]
Text(p) == [t |-> "text", parsed |-> p]

SyntaxError == [t |-> "error"]
JsonObject == [t |-> "object"]
JsonArray(a) == [t |-> "array", v |-> a]

\* a variant of JSONstringify: completed is left out, and read back as false
JSONstringify_NoCompleted(list) ==
  Text(JsonArray([i \in 1..Len(list) |->
         [id |-> list[i].id, text |-> list[i].text,
          completed |-> "false",
          priority |-> list[i].priority]]))

JSONstringify(list) ==
  Text(JsonArray([i \in 1..Len(list) |->
         [id |-> list[i].id, text |-> list[i].text,
          completed |-> IF list[i].completed THEN "true" ELSE "false",
          priority |-> list[i].priority]]))

\* JSON.parse of a text that holds an array of records
JSONparseArray(a) ==
  [i \in 1..Len(a) |->
     [id |-> a[i].id, text |-> a[i].text,
      completed |-> (a[i].completed = "true"),
      priority |-> a[i].priority]]

\* loadTasks: what useState receives.  A value that is no array is returned
\* as it is.
loadTasks(saved) ==
  IF saved.t = "text" /\ saved.parsed.t = "array"
    THEN JsonArray(JSONparseArray(saved.parsed.v))
  ELSE IF saved.t = "text" /\ saved.parsed.t = "object"
    THEN JsonObject
  ELSE JsonArray(<<>>)

\* the effect of App.tsx:31-33, run after a render in which tasks changed
Persist(list) == JSONstringify(list)

SavedRecord(n, p, c) ==
  [id |-> <<"saved", n>>, text |-> <<"milk">>, completed |-> c, priority |-> p]

\* the storage of a first visit, or one holding a text that is no JSON
FreshStorage == { NoItem, Text(SyntaxError) }

\* what the storage may hold when the page is opened: also a JSON value that
\* is no array, and arrays this application did not write
InitialStorage ==
  FreshStorage \cup
  { Text(JsonObject),
    Text(JsonArray(<<SavedRecord(1, HIGH, "false"), SavedRecord(1, LOW, "true")>>)),
    Text(JsonArray(<<SavedRecord(1, "Urgent", "false")>>)) }

----------------------------------------------------------------------------
(* pranavService.ts: what a call makes of the service's answer *)

\* the answers of ai.models.generateContent
Failure == [t |-> "error"]           \* the call throws, or JSON.parse of its text does
NoText == [t |-> "notext"]           \* response.text is undefined or ''
Reply(x) == [t |-> "reply", body |-> x]

PriorityReplies == { Failure, NoText } \cup { Reply(x) : x \in PriorityTexts }
BreakdownReplies == { Failure, NoText } \cup { Reply(a) : a \in Breakdowns }

\* a variant of suggestPriority: one default, Low, for failure as for success
suggestPriority_OneDefault(r) ==
  IF r.t = "reply" /\ Trim(r.body) = <<HIGH>> THEN HIGH
  ELSE IF r.t = "reply" /\ Trim(r.body) = <<MEDIUM>> THEN MEDIUM
  ELSE LOW

suggestPriority(r) ==
  IF r.t = "error" THEN MEDIUM
  ELSE IF r.t = "reply" /\ Trim(r.body) = <<HIGH>> THEN HIGH
  ELSE IF r.t = "reply" /\ Trim(r.body) = <<MEDIUM>> THEN MEDIUM
  ELSE LOW

breakDownTask(r) ==
  IF r.t = "error" THEN <<>>
  ELSE IF r.t = "notext" THEN <<>>
  ELSE r.body

----------------------------------------------------------------------------
(* App.tsx: the task store *)

NewTask(id, text, priority) ==
  [id |-> id, text |-> text, completed |-> FALSE, priority |-> priority]

\* a variant of addTask: no check for a blank text
addTask_NoBlankCheck(list, text, priorityOverride, id) ==
  <<NewTask(id, Trim(text),
            IF priorityOverride = Undefined THEN LOW ELSE priorityOverride)>>
    \o list

\* addTask's update of the list; id is the value randomUUID returns
addTask(list, text, priorityOverride, id) ==
  IF Trim(text) = <<>> THEN list
  ELSE <<NewTask(id, Trim(text),
                 IF priorityOverride = Undefined THEN LOW ELSE priorityOverride)>>
         \o list

\* a variant of SubtaskTasks: the subtasks get the default priority
SubtaskTasks_NoInherit(subtasks, priority, first) ==
  [k \in 1..Len(subtasks) |-> NewTask(UUID(first + k - 1), subtasks[k], LOW)]

\* the new tasks of handleSmartAdd, the k-th with the id UUID(first + k - 1)
SubtaskTasks(subtasks, priority, first) ==
  [k \in 1..Len(subtasks) |-> NewTask(UUID(first + k - 1), subtasks[k], priority)]

\* a variant of smartAddUpdate: setTasks is given the new tasks, not an updater
smartAddUpdate_ReplacesList(prev, call, subtasks, first) ==
  IF Len(subtasks) > 0
    THEN SubtaskTasks(subtasks, call.priority, first)
    ELSE addTask(<<>>, call.text, call.priority, UUID(first))

\* handleSmartAdd's update of the list, applied to the list prev that setTasks
\* passes to the updater; call is the suspended call
smartAddUpdate(prev, call, subtasks, first) ==
  IF Len(subtasks) > 0
    THEN SubtaskTasks(subtasks, call.priority, first) \o prev
    ELSE addTask(prev, call.text, call.priority, UUID(first))

toggleTask(list, id) ==
  [i \in 1..Len(list) |->
     IF list[i].id = id THEN [list[i] EXCEPT !.completed = ~list[i].completed]
     ELSE list[i]]

deleteTask(list, id) == SelectSeq(list, LAMBDA t : t.id # id)

Count(list, p, done) ==
  Cardinality({i \in 1..Len(list) : list[i].priority = p /\ list[i].completed = done})

statsData(list) ==
  SelectSeq(<<[name |-> "High", value |-> Count(list, HIGH, FALSE)],
              [name |-> "Medium", value |-> Count(list, MEDIUM, FALSE)],
              [name |-> "Low", value |-> Count(list, LOW, FALSE)]>>,
            LAMBDA d : d.value > 0)

----------------------------------------------------------------------------
(* App.tsx: the controls *)

\* the Add button (disabled = ...)
AddEnabled == ~(Trim(inputText) = <<>> \/ isAiLoading)

\* the Enter key (onKeyDown)
EnterAdds == ~isAiLoading

\* a variant of SmartAddEnabled: the button ignores the busy flag
SmartAddEnabled_IgnoresBusy == ~(Trim(inputText) = <<>>)

\* the Pranav AI Organize button (disabled = ...)
SmartAddEnabled == ~(Trim(inputText) = <<>> \/ isAiLoading)

\* the ids toggle and delete are tried with: those on the list and one that is not
Ids == { tasks[i].id : i \in 1..Len(tasks) } \cup { NoId }

\* ev: the operation; the text, priority and subtasks addTask and handleSmartAdd
\* worked with and the list they found; whether the suggestPriority call had
\* failed; whether the busy flag was set; for a smart add, whether the list
\* (touched) and the input (edited) had changed since the call was made; for
\* toggle and delete, whether the list changed (touched)
Event(op) ==
  [op |-> op, text |-> <<>>, priority |-> Undefined, subtasks |-> <<>>,
   failed |-> FALSE, before |-> <<>>, busy |-> isAiLoading, touched |-> FALSE,
   edited |-> FALSE]

\* the suspended calls, marked: the list changed while they wait
Touch(calls) == [k \in 1..Len(calls) |-> [calls[k] EXCEPT !.touched = TRUE]]

----------------------------------------------------------------------------
(* The state machine *)

Start(stored) ==
  /\ pc = "boot"
  /\ storage \in stored
  /\ tasks = <<>>
  /\ inputText = <<>>
  /\ isAiLoading = FALSE
  /\ pending = <<>>
  /\ nextId = 1
  /\ ev = [op |-> "none", text |-> <<>>, priority |-> Undefined,
           subtasks |-> <<>>, failed |-> FALSE, before |-> <<>>, busy |-> FALSE,
           touched |-> FALSE, edited |-> FALSE]

Init == Start(FreshStorage)

InitStored == Start(InitialStorage)

\* the first render of App: useState(loadTasks), the memos, then the effects
Mount ==
  /\ pc = "boot"
  /\ LET loaded == loadTasks(storage) IN
       IF loaded.t = "array"
         THEN /\ tasks' = loaded.v
              /\ storage' = Persist(loaded.v)
              /\ pc' = "running"
         ELSE \* tasks.filter is not a function: the render throws
              /\ tasks' = <<>>
              /\ storage' = storage
              /\ pc' = "crashed"
  /\ ev' = Event("mount")
  /\ UNCHANGED <<inputText, isAiLoading, pending, nextId>>

\* the page is loaded again: every piece of state but the storage starts over
Reload ==
  /\ pc = "running"
  /\ pc' = "boot"
  /\ tasks' = <<>>
  /\ inputText' = <<>>
  /\ isAiLoading' = FALSE
  /\ pending' = <<>>
  /\ ev' = [Event("reload") EXCEPT !.busy = FALSE]
  /\ UNCHANGED <<storage, nextId>>

\* onChange of the input
SetInput(t) ==
  /\ pc = "running"
  /\ t # inputText
  /\ inputText' = t
  /\ UNCHANGED <<pc, storage, tasks, isAiLoading, pending, nextId, ev>>

\* addTask(inputText), as the Add button and the Enter key call it
Add ==
  /\ pc = "running"
  /\ nextId <= MaxIds
  /\ LET list == addTask(tasks, inputText, Undefined, UUID(nextId)) IN
       /\ tasks' = list
       /\ storage' = IF list # tasks THEN Persist(list) ELSE storage
       /\ nextId' = IF list # tasks THEN nextId + 1 ELSE nextId
       /\ inputText' = IF Trim(inputText) = <<>> THEN inputText ELSE <<>>
  /\ ev' = [Event("add") EXCEPT !.text = inputText, !.before = tasks]
  /\ UNCHANGED <<pc, isAiLoading, pending>>

ClickAdd == AddEnabled /\ Add

PressEnter == EnterAdds /\ Add

\* handleSmartAdd up to its first await
ClickSmartAdd ==
  /\ pc = "running"
  /\ SmartAddEnabled
  /\ Len(pending) < MaxInflight
  /\ Trim(inputText) # <<>>
  /\ isAiLoading' = TRUE
  /\ pending' = Append(pending, [text |-> inputText, stage |-> "priority",
                                 priority |-> Undefined, failed |-> FALSE,
                                 touched |-> FALSE])
  /\ UNCHANGED <<pc, storage, tasks, inputText, nextId, ev>>

\* suggestPriority settles: handleSmartAdd runs on to its second await
PrioritySettles(k, r) ==
  /\ pc = "running"
  /\ k \in 1..Len(pending)
  /\ pending[k].stage = "priority"
  /\ pending' = [pending EXCEPT ![k].stage = "breakdown",
                                ![k].priority = suggestPriority(r),
                                ![k].failed = (r.t = "error")]
  /\ UNCHANGED <<pc, storage, tasks, inputText, isAiLoading, nextId, ev>>

Without(s, k) == SubSeq(s, 1, k - 1) \o SubSeq(s, k + 1, Len(s))

\* breakDownTask settles: handleSmartAdd runs to its end
BreakdownSettles(k, r) ==
  /\ pc = "running"
  /\ k \in 1..Len(pending)
  /\ pending[k].stage = "breakdown"
  /\ LET subtasks == breakDownTask(r)
         list == smartAddUpdate(tasks, pending[k], subtasks, nextId)
     IN /\ nextId + (Len(list) - Len(tasks)) <= MaxIds + 1
        /\ tasks' = list
        /\ storage' = Persist(list)
        /\ nextId' = nextId + (Len(list) - Len(tasks))
        /\ ev' = [Event("smartAdd") EXCEPT !.text = pending[k].text,
                                           !.priority = pending[k].priority,
                                           !.subtasks = subtasks,
                                           !.failed = pending[k].failed,
                                           !.before = tasks,
                                           !.touched = pending[k].touched,
                                           !.edited = (inputText # pending[k].text)]
  /\ inputText' = <<>>
  /\ isAiLoading' = FALSE
  /\ pending' = Without(pending, k)
  /\ UNCHANGED pc

Toggle(id) ==
  /\ pc = "running"
  /\ tasks' = toggleTask(tasks, id)
  /\ storage' = Persist(tasks')
  /\ pending' = IF tasks' # tasks THEN Touch(pending) ELSE pending
  /\ ev' = [Event("toggle") EXCEPT !.touched = (tasks' # tasks)]
  /\ UNCHANGED <<pc, inputText, isAiLoading, nextId>>

Delete(id) ==
  /\ pc = "running"
  /\ tasks' = deleteTask(tasks, id)
  /\ storage' = Persist(tasks')
  /\ pending' = IF tasks' # tasks THEN Touch(pending) ELSE pending
  /\ ev' = [Event("delete") EXCEPT !.touched = (tasks' # tasks)]
  /\ UNCHANGED <<pc, inputText, isAiLoading, nextId>>

Next ==
  \/ Mount
  \/ Reload
  \/ \E t \in InputTexts : SetInput(t)
  \/ ClickAdd
  \/ PressEnter
  \/ ClickSmartAdd
  \/ \E k \in 1..MaxInflight, r \in PriorityReplies : PrioritySettles(k, r)
  \/ \E k \in 1..MaxInflight, r \in BreakdownReplies : BreakdownSettles(k, r)
  \/ \E id \in Ids : Toggle(id)
  \/ \E id \in Ids : Delete(id)

\* a first visit
Spec == Init /\ [][Next]_vars

\* a visit that finds whatever the storage holds
SpecStored == InitStored /\ [][Next]_vars

----------------------------------------------------------------------------
(* The claims *)

OnList(list, id) == \E i \in 1..Len(list) : list[i].id = id

\* the tasks of list from position n + 1 on
From(list, n) == SubSeq(list, n + 1, Len(list))

\* C1 (as amended): when breakDownTask returns n >= 1 subtasks and
\* suggestPriority returned p, handleSmartAdd puts exactly n new tasks in front
\* of the list, the i-th with the text of the i-th subtask, priority p and
\* completed = FALSE, and the tasks already on the list follow them unchanged.
\* The input text is not made a task of its own: it is on a new task only
\* where the service returned it as a subtask.
C1_SubtasksPrepended ==
  (ev.op = "smartAdd" /\ ev.subtasks # <<>>) =>
    LET n == Len(ev.subtasks)
    IN /\ Len(tasks) = Len(ev.before) + n
       /\ \A i \in 1..n :
            /\ tasks[i].text = ev.subtasks[i]
            /\ tasks[i].priority = ev.priority
            /\ tasks[i].completed = FALSE
            /\ ~OnList(ev.before, tasks[i].id)
       /\ From(tasks, n) = ev.before

\* C1 as stated: as above, and no new task carries the original input text.
C1_Original ==
  (ev.op = "smartAdd" /\ ev.subtasks # <<>>) =>
    LET n == Len(ev.subtasks)
    IN /\ Len(tasks) = Len(ev.before) + n
       /\ \A i \in 1..n :
            /\ tasks[i].text = ev.subtasks[i]
            /\ tasks[i].priority = ev.priority
            /\ tasks[i].completed = FALSE
            /\ tasks[i].text # ev.text
       /\ From(tasks, n) = ev.before

\* two subtasks were returned, the second the very text of the input, with
\* priority High: both are on the list, in that order
C1_Witness ==
  /\ ev.op = "smartAdd"
  /\ Len(ev.subtasks) = 2
  /\ ev.priority = HIGH
  /\ Len(tasks) = Len(ev.before) + 2
  /\ tasks[1].text = ev.subtasks[1] /\ tasks[1].priority = HIGH
  /\ tasks[2].text = ev.subtasks[2] /\ tasks[2].priority = HIGH
  /\ tasks[1].text # ev.text
  /\ tasks[2].text = ev.text

\* C2 (as amended): when the breakdown fails or is empty, handleSmartAdd adds
\* exactly one task, in front; its text is the input text trimmed, completed is
\* FALSE and its priority is the one suggestPriority returned, which is Medium
\* when the suggestPriority call failed; the application keeps running.
C2_FallbackAddsTrimmed ==
  (ev.op = "smartAdd" /\ ev.subtasks = <<>>) =>
    /\ Len(tasks) = Len(ev.before) + 1
    /\ tasks[1].text = Trim(ev.text)
    /\ tasks[1].completed = FALSE
    /\ tasks[1].priority = ev.priority
    /\ ev.priority \in Priority
    /\ ev.failed => ev.priority = MEDIUM
    /\ From(tasks, 1) = ev.before
    /\ pc = "running"

\* C2 as stated: the text of the one new task is the input text itself.
C2_Original ==
  (ev.op = "smartAdd" /\ ev.subtasks = <<>>) =>
    /\ Len(tasks) = Len(ev.before) + 1
    /\ tasks[1].text = ev.text
    /\ tasks[1].completed = FALSE
    /\ tasks[1].priority = ev.priority
    /\ ev.failed => ev.priority = MEDIUM
    /\ From(tasks, 1) = ev.before
    /\ pc = "running"

\* the fallback ran for an input with a leading blank after suggestPriority
\* failed: the one new task has the trimmed text and priority Medium
C2_Witness ==
  /\ ev.op = "smartAdd"
  /\ ev.subtasks = <<>>
  /\ ev.failed
  /\ ev.text # Trim(ev.text)
  /\ Len(tasks) = Len(ev.before) + 1
  /\ tasks[1].text = Trim(ev.text)
  /\ tasks[1].priority = MEDIUM
  /\ ~tasks[1].completed

\* C3: addTask with a text that is not blank after trimming makes the list one
\* longer by putting one task with completed = FALSE in front, with priority
\* Low when none is given and with the given priority otherwise, and leaves the
\* tasks already there unchanged; with a blank text it leaves the list unchanged.
C3_AddPrepends ==
  /\ ev.op = "add" =>
       IF Trim(ev.text) # <<>>
         THEN /\ Len(tasks) = Len(ev.before) + 1
              /\ tasks[1].completed = FALSE
              /\ tasks[1].priority = LOW
              /\ From(tasks, 1) = ev.before
         ELSE tasks = ev.before
  /\ (ev.op = "smartAdd" /\ ev.subtasks = <<>>) =>
       /\ Len(tasks) = Len(ev.before) + 1
       /\ tasks[1].completed = FALSE
       /\ tasks[1].priority = ev.priority
       /\ From(tasks, 1) = ev.before

\* a text that is not blank was added, without a priority, to a list that held
\* a task already
C3_Witness ==
  /\ ev.op = "add"
  /\ Trim(ev.text) # <<>>
  /\ Len(ev.before) >= 1
  /\ Len(tasks) = Len(ev.before) + 1
  /\ tasks[1].priority = LOW
  /\ ~tasks[1].completed

\* C4: deleteTask(id) removes exactly one task when a task with that id is on
\* the list, leaves the list unchanged when none is, and a second
\* deleteTask(id) right after the first leaves the list unchanged.
C4_DeleteRemovesOne ==
  [][\A id \in Ids :
       Delete(id) =>
         /\ OnList(tasks, id) => Len(tasks') = Len(tasks) - 1
         /\ ~OnList(tasks, id) => tasks' = tasks
         /\ deleteTask(tasks', id) = tasks']_vars

Incomplete(list) == Cardinality({i \in 1..Len(list) : ~list[i].completed})

RECURSIVE SumValues(_)
SumValues(data) ==
  IF data = <<>> THEN 0 ELSE Head(data).value + SumValues(Tail(data))

\* C5: in every reachable state statsData has no entry with value 0, and the
\* values of its entries add up to the number of tasks with completed = FALSE.
C5_StatsSum ==
  pc = "running" =>
    /\ \A i \in 1..Len(statsData(tasks)) : statsData(tasks)[i].value # 0
    /\ SumValues(statsData(tasks)) = Incomplete(tasks)

\* the stored text is the serialization of an array of Task records
TaskArrayText(saved) ==
  /\ saved.t = "text"
  /\ saved.parsed.t = "array"
  /\ \A i \in 1..Len(saved.parsed.v) :
       /\ saved.parsed.v[i].completed \in {"true", "false"}
       /\ saved.parsed.v[i].priority \in Priority

\* C6: at startup, when the storage holds anything but the serialization of an
\* array of Task records, the list is empty and nothing is thrown.
C6_BadStorageEmptyList ==
  [][(Mount /\ ~TaskArrayText(storage)) => (tasks' = <<>> /\ pc' = "running")]_vars

\* C7 (as amended): while a smart add is pending the busy flag is set and no
\* second smart add can be started, so at most one is in flight; in that time
\* the Add button and the Enter key add nothing either, while toggleTask and
\* deleteTask of any task on the list still change the list.
C7_BusyBlocksAdds ==
  pc = "running" =>
    /\ Len(pending) <= 1
    /\ (pending # <<>>) <=> isAiLoading
    /\ isAiLoading =>
         /\ ~SmartAddEnabled
         /\ ~AddEnabled
         /\ ~EnterAdds
         /\ \A i \in 1..Len(tasks) :
              /\ toggleTask(tasks, tasks[i].id) # tasks
              /\ deleteTask(tasks, tasks[i].id) # tasks

\* C7 as stated: while a smart add is pending no second one can be started,
\* and ordinary add, toggle and delete remain possible.
C7_Original ==
  (pc = "running" /\ isAiLoading) =>
    /\ Len(pending) <= 1
    /\ ~SmartAddEnabled
    /\ AddEnabled \/ EnterAdds
    /\ \A i \in 1..Len(tasks) :
         /\ toggleTask(tasks, tasks[i].id) # tasks
         /\ deleteTask(tasks, tasks[i].id) # tasks

\* a task was toggled while a smart add was pending, the input holds a text,
\* and the call still waits
C7_Witness ==
  /\ pc = "running"
  /\ isAiLoading
  /\ Len(pending) = 1
  /\ pending[1].touched
  /\ ev.op = "toggle"
  /\ ev.busy
  /\ ev.touched
  /\ Trim(inputText) # <<>>

\* C8: after every operation the storage holds the serialization of the whole
\* list as it is now, and loadTasks makes of it the same tasks in the same order.
C8_StorageMirrorsList ==
  pc = "running" =>
    /\ storage = JSONstringify(tasks)
    /\ loadTasks(storage) = JsonArray(tasks)

\* a list of two tasks, one of them completed, was read back from what the
\* application had stored
C8_Witness ==
  /\ pc = "running"
  /\ ev.op = "mount"
  /\ Len(tasks) = 2
  /\ \E i \in 1..2 : tasks[i].completed
  /\ \E i \in 1..2 : ~tasks[i].completed

\* C9: starting from an empty list, every task on the list has a text that is
\* not empty after trimming.
C9_TextNotBlank ==
  pc = "running" => \A i \in 1..Len(tasks) : Trim(tasks[i].text) # <<>>

\* C10: when a smart add settles, its new tasks are built from the input text
\* the call was made with, whatever the input holds by then, and are put in
\* front of the list as it is at that moment: what toggle and delete did to the
\* list in between is still there.
C10_NoLostUpdate ==
  ev.op = "smartAdd" =>
    LET n == Len(tasks) - Len(ev.before)
    IN /\ n >= 1
       /\ From(tasks, n) = ev.before
       /\ IF ev.subtasks = <<>>
            THEN n = 1 /\ tasks[1].text = Trim(ev.text)
            ELSE /\ n = Len(ev.subtasks)
                 /\ \A i \in 1..n : tasks[i].text = ev.subtasks[i]

\* a smart add settled after both the list and the input had changed under it:
\* the new task is in front of the list it found, which holds a completed task
C10_Witness ==
  /\ ev.op = "smartAdd"
  /\ ev.touched
  /\ ev.edited
  /\ Len(ev.before) >= 1
  /\ ev.before[1].completed
  /\ Len(tasks) = Len(ev.before) + 1
  /\ tasks[2] = ev.before[1]
  /\ tasks[1].text = Trim(ev.text)

====
